---- MODULE Spec2Model ----
(***************************************************************************)
(* Model of caching-fetch-library/cachingFetch.ts: the module-level cache  *)
(* Map, fetchAndCache (the in-flight de-duplication), the useCachingFetch  *)
(* hook (render, effect, completion callback, cleanup),                    *)
(* preloadCachingFetch, serializeCache, initializeCache and wipeCache.     *)
(*                                                                         *)
(* One step of the model is one task of the single JavaScript thread: a    *)
(* call of the exported API, a render or an effect of a component, or the  *)
(* settlement of one fetch.  The handlers of lines 29-40 and the reactions *)
(* registered on the promise fetchAndCache returned (the hook's .then      *)
(* callback, preload's await) run in the same microtask checkpoint, so     *)
(* they form one step.                                                     *)
(***************************************************************************)
EXTENDS Naturals, Sequences, FiniteSets, TLC

VARIABLES
    calls,      \* the number of steps taken by callers (renders, effects, API calls)
    cache,      \* the module's Map, line 15
    fetches,    \* the retrievals started so far, in order; a promise is an index
    hooks,      \* per component: the hook's state and its effect's closure
    preloads,   \* per caller: the position of its preloadCachingFetch call
    lastCall,   \* history: the last step, when it was a call on the whole cache
    wiped,      \* history: per key, whether it was wiped and read again
    lastSettle  \* history: the last step, when it was the settlement of a retrieval

vars == <<calls, cache, fetches, hooks, preloads, lastCall, wiped, lastSettle>>

(***************************************************************************)
(* Bounds of the model.                                                    *)
(***************************************************************************)
\* Steps the callers take in a behaviour: renders, effects, unmounts and calls
\* of the exported functions.  Settlements of retrievals are not counted.
MaxCalls == 5

\* Resource keys, hook instances (components) and preload callers.
Urls == {"/items", "/users"}
Components == {"A", "B"}
Callers == {"S"}

(***************************************************************************)
(* JavaScript values.  A decoded JSON value is a record of its type and    *)
(* its JSON text; an Error object is a record carrying its message.        *)
(***************************************************************************)
JNull == [type |-> "null", text |-> "null"]
JZero == [type |-> "number", text |-> "0"]
JObj == [type |-> "object", text |-> "{\"id\":1}"]
JStr(s) == [type |-> "string", text |-> s]

\* Payloads res.json() may decode to: a truthy and a falsy one.
Payloads == {JObj, JZero}

NoError == [isError |-> FALSE, message |-> ""]
Err(m) == [isError |-> TRUE, message |-> m]

\* JavaScript truthiness of a decoded JSON value (data, value.error).
Truthy(v) ==
    /\ v.type # "null"
    /\ ~(v.type = "number" /\ v.text = "0")
    /\ ~(v.type = "string" /\ v.text = "")
    /\ ~(v.type = "boolean" /\ v.text = "false")

\* JavaScript truthiness of an `Error | null`: an object is always truthy.
TruthyError(e) == e.isError

(***************************************************************************)
(* What fetch(url) can produce: a rejection (network failure) carrying an  *)
(* Error, or a Response with a status and a body that decodes or not.      *)
(***************************************************************************)
Rejection(m) ==
    [rejected |-> TRUE, status |-> 0, decodes |-> FALSE, value |-> JNull, message |-> m]
Response(status, decodes, value, m) ==
    [rejected |-> FALSE, status |-> status, decodes |-> decodes, value |-> value, message |-> m]

FetchResults ==
    {Response(200, TRUE, v, "") : v \in Payloads}
        \cup {Response(500, TRUE, JObj, ""),
              Response(200, FALSE, JNull, "Unexpected token < in JSON"),
              Rejection("")}

ResOk(res) == res.status \in 200..299

(***************************************************************************)
(* The cache: a Map<string, CacheEntry>, kept in insertion order.  An      *)
(* entry's promise is the number of its retrieval in fetches, 0 for none.  *)
(***************************************************************************)
NoPromise == 0

CacheEntry(url, data, error, promise) ==
    [url |-> url, data |-> data, error |-> error, promise |-> promise]

MapHas(m, k) == \E i \in 1..Len(m) : m[i].url = k

MapGet(m, k) == m[CHOOSE i \in 1..Len(m) : m[i].url = k]

MapSet(m, k, e) ==
    IF MapHas(m, k)
    THEN [i \in 1..Len(m) |-> IF m[i].url = k THEN e ELSE m[i]]
    ELSE Append(m, e)

MapKeys(m) == {m[i].url : i \in 1..Len(m)}

\* cached?.data ?? null, cached?.error ?? null and cached?.promise
DataOrNull(m, k) == IF MapHas(m, k) THEN MapGet(m, k).data ELSE JNull
ErrorOrNull(m, k) == IF MapHas(m, k) THEN MapGet(m, k).error ELSE NoError
PromiseOf(m, k) == IF MapHas(m, k) THEN MapGet(m, k).promise ELSE NoPromise

\* cachedEntry?.data || cachedEntry?.error
HasDataOrError(m, k) ==
    MapHas(m, k) /\ (Truthy(MapGet(m, k).data) \/ TruthyError(MapGet(m, k).error))

(***************************************************************************)
(* Strings handed to initializeCache and returned by serializeCache.  A    *)
(* string is the empty string, a text JSON.parse rejects, or the text of   *)
(* a JSON document; a document is null or an object, given as the list of  *)
(* its members in the order Object.entries yields them.  A member's value  *)
(* is null or an object {data, error}.                                     *)
(***************************************************************************)
NullDoc == [isObject |-> FALSE, members |-> <<>>]
ObjectDoc(members) == [isObject |-> TRUE, members |-> members]

Member(key, data, error) ==
    [key |-> key, isObject |-> TRUE, data |-> data, error |-> error]
NullMember(key) ==
    [key |-> key, isObject |-> FALSE, data |-> JNull, error |-> JNull]

EmptyString == [empty |-> TRUE, parses |-> FALSE, doc |-> NullDoc]
NotValidJson == [empty |-> FALSE, parses |-> FALSE, doc |-> NullDoc]

\* JSON.stringify(doc): the text of doc, which JSON.parse reads back.
JSONStringify(doc) == [empty |-> FALSE, parses |-> TRUE, doc |-> doc]

\* Mutant of FetchOutcome: the test of res.ok, lines 30-32, left out.
FetchOutcomeIgnoresStatus(url, res) ==
    IF res.rejected
    THEN CacheEntry(url, JNull, Err(res.message), NoPromise)
    ELSE IF ~res.decodes
    THEN CacheEntry(url, JNull, Err(res.message), NoPromise)
    ELSE CacheEntry(url, res.value, NoError, NoPromise)

(***************************************************************************)
(* fetchAndCache, lines 28-40: the entry the completion handlers store     *)
(* for a result of fetch.                                                  *)
(***************************************************************************)
FetchOutcome(url, res) ==
    IF res.rejected
    THEN CacheEntry(url, JNull, Err(res.message), NoPromise)
    ELSE IF ~ResOk(res)
    THEN CacheEntry(url, JNull,
                    Err("Request failed with status " \o ToString(res.status)),
                    NoPromise)
    ELSE IF ~res.decodes
    THEN CacheEntry(url, JNull, Err(res.message), NoPromise)
    ELSE CacheEntry(url, res.value, NoError, NoPromise)

\* Mutant of FetchAndCache: lines 23-26 left out, every call starts a fetch.
FetchAndCacheNoDedup(m, f, url) ==
    [cache |-> MapSet(m, url, [url |-> url,
                               data |-> IF \E i \in 1..Len(m) : m[i].url = url
                                        THEN m[CHOOSE i \in 1..Len(m) : m[i].url = url].data
                                        ELSE [type |-> "null", text |-> "null"],
                               error |-> [isError |-> FALSE, message |-> ""],
                               promise |-> Len(f) + 1]),
     fetches |-> Append(f, [url |-> url, settled |-> FALSE]),
     promise |-> Len(f) + 1]

(***************************************************************************)
(* fetchAndCache, lines 20-26 and 42-48: the cache, the retrievals and the *)
(* promise returned.  A retrieval is a record of its url and whether it    *)
(* has settled; its number is the promise.                                 *)
(***************************************************************************)
FetchAndCache(m, f, url) ==
    IF PromiseOf(m, url) # NoPromise
    THEN [cache |-> m, fetches |-> f, promise |-> PromiseOf(m, url)]
    ELSE LET promise == Len(f) + 1
         IN  [cache |-> MapSet(m, url,
                               CacheEntry(url, DataOrNull(m, url), NoError, promise)),
              fetches |-> Append(f, [url |-> url, settled |-> FALSE]),
              promise |-> promise]

\* Whether fetchAndCache(url) would call fetch.
StartsFetch(m, url) == PromiseOf(m, url) = NoPromise

(***************************************************************************)
(* useCachingFetch, lines 55-61: the state a first render initialises.     *)
(***************************************************************************)
UseState(m, url) ==
    [data |-> DataOrNull(m, url),
     error |-> ErrorOrNull(m, url),
     isLoading |-> (~MapHas(m, url)
                    \/ (~Truthy(MapGet(m, url).data)
                        /\ ~TruthyError(MapGet(m, url).error)))]

\* Mutant of Serializable: entries with a promise in flight are skipped.
SerializableSkipsPending(m) ==
    ObjectDoc([i \in 1..Len(SelectSeq(m, LAMBDA e : e.promise = 0)) |->
        Member(SelectSeq(m, LAMBDA e : e.promise = 0)[i].url,
               SelectSeq(m, LAMBDA e : e.promise = 0)[i].data,
               IF SelectSeq(m, LAMBDA e : e.promise = 0)[i].error.isError
               THEN JStr(SelectSeq(m, LAMBDA e : e.promise = 0)[i].error.message)
               ELSE JNull)])

(***************************************************************************)
(* serializeCache, lines 112-124.                                          *)
(***************************************************************************)
Serializable(m) ==
    ObjectDoc([i \in 1..Len(m) |->
        Member(m[i].url,
               m[i].data,
               IF TruthyError(m[i].error) THEN JStr(m[i].error.message) ELSE JNull)])

SerializeCache(m) == JSONStringify(Serializable(m))

\* Mutant of InstallEntries: a key already cached is deleted, not overwritten.
RECURSIVE InstallEntriesToggle(_, _)
InstallEntriesToggle(m, members) ==
    IF members = <<>>
    THEN [cache |-> m, threw |-> FALSE]
    ELSE LET v == Head(members)
         IN  IF ~v.isObject
             THEN [cache |-> m, threw |-> TRUE]
             ELSE InstallEntriesToggle(
                      IF MapHas(m, v.key)
                      THEN SelectSeq(m, LAMBDA e : e.url # v.key)
                      ELSE Append(m, CacheEntry(v.key, v.data,
                                                IF Truthy(v.error) THEN Err(v.error.text)
                                                                   ELSE NoError,
                                                NoPromise)),
                      Tail(members))

(***************************************************************************)
(* initializeCache, lines 129-147.  InstallEntries is the forEach of lines *)
(* 138-143: reading value.data of a null member throws, after the members  *)
(* before it were installed.  The result is the cache and whether the call *)
(* raised to its caller.                                                   *)
(***************************************************************************)
RECURSIVE InstallEntries(_, _)
InstallEntries(m, members) ==
    IF members = <<>>
    THEN [cache |-> m, threw |-> FALSE]
    ELSE LET v == Head(members)
         IN  IF ~v.isObject
             THEN [cache |-> m, threw |-> TRUE]
             ELSE InstallEntries(
                      MapSet(m, v.key,
                             CacheEntry(v.key, v.data,
                                        IF Truthy(v.error) THEN Err(v.error.text)
                                                           ELSE NoError,
                                        NoPromise)),
                      Tail(members))

\* Mutant of TryInstall: a snapshot that fails to parse resets the cache.
TryInstallResetOnError(m, s) ==
    IF ~s.parses THEN [cache |-> <<>>, threw |-> TRUE]
    ELSE IF ~s.doc.isObject THEN [cache |-> m, threw |-> TRUE]
    ELSE InstallEntries(m, s.doc.members)

\* Lines 133-143, the body of the try block.
TryInstall(m, s) ==
    IF ~s.parses THEN [cache |-> m, threw |-> TRUE]
    ELSE IF ~s.doc.isObject THEN [cache |-> m, threw |-> TRUE]
    ELSE InstallEntries(m, s.doc.members)

\* Mutant of InitializeCache: the snapshot replaces the store, the members
\* are installed into a Map emptied first.
InitializeCacheReplacesStore(m, s) ==
    IF s.empty
    THEN [cache |-> m, raised |-> FALSE]
    ELSE IF s.parses /\ s.doc.isObject
    THEN [cache |-> InstallEntries(<<>>, s.doc.members).cache, raised |-> FALSE]
    ELSE [cache |-> m, raised |-> FALSE]

InitializeCache(m, s) ==
    IF s.empty
    THEN [cache |-> m, raised |-> FALSE]
    ELSE [cache |-> TryInstall(m, s).cache, raised |-> FALSE]

\* Mutant of WipeCache: only the entries with a promise in flight are removed.
WipeCacheKeepsSettled(m) == SelectSeq(m, LAMBDA e : e.promise = 0)

(***************************************************************************)
(* wipeCache, lines 152-154.                                               *)
(***************************************************************************)
WipeCache(m) == <<>>

(***************************************************************************)
(* The strings callers hand to initializeCache, besides the string the     *)
(* last serializeCache returned.                                           *)
(***************************************************************************)
LoadInputs ==
    {EmptyString,
     NotValidJson,
     JSONStringify(NullDoc),
     JSONStringify(ObjectDoc(<<Member("/items", JObj, JNull)>>)),
     JSONStringify(ObjectDoc(<<Member("/users", JNull, JStr("boom"))>>)),
     JSONStringify(ObjectDoc(<<Member("/items", JZero, JNull), NullMember("/users")>>))}

(***************************************************************************)
(* History variables.  lastCall is the call of serializeCache,             *)
(* initializeCache or wipeCache that was the last step (NoCall after any   *)
(* other step): its argument or result, whether it raised, and whether it  *)
(* repeats the call before it.  wiped[k] is "wiped" from a wipeCache that  *)
(* removed a resolved entry of k until k has an entry again, and           *)
(* "refetching" while the entry that fetchAndCache then created stands.    *)
(***************************************************************************)
Call(op, str, raised, repeat) ==
    [op |-> op, str |-> str, raised |-> raised, repeat |-> repeat]

NoCall == Call("none", EmptyString, FALSE, FALSE)

\* An entry that is resolved: settled with a payload.
Resolved(e) == e.promise = NoPromise /\ ~e.error.isError

WipedAfter(m, k) ==
    IF wiped[k] = "wiped"
    THEN IF ~MapHas(m, k) THEN "wiped"
         ELSE IF MapGet(m, k).promise # NoPromise THEN "refetching" ELSE "no"
    ELSE IF wiped[k] = "refetching" /\ MapHas(m, k) /\ MapHas(cache, k)
                                       /\ MapGet(m, k) = MapGet(cache, k)
    THEN "refetching"
    ELSE "no"

\* lastSettle is the settlement that was the last step (NoSettle after any
\* other step): the retrieval, the components whose live closure awaited it
\* (line 78) and those with a closure on it whose cleanup had run (line 79).
Settled(h, live, tornDown) == [h |-> h, live |-> live, tornDown |-> tornDown]

NoSettle == Settled(0, {}, {})

(***************************************************************************)
(* Initial state: the module is loaded, nothing is rendered.               *)
(***************************************************************************)
NoHook ==
    [pc |-> "none", url |-> "", data |-> JNull, error |-> NoError,
     isLoading |-> FALSE, promise |-> NoPromise, detached |-> {}]

NoPreload == [pc |-> "idle", url |-> "", promise |-> NoPromise]

Init ==
    /\ calls = 0
    /\ cache = <<>>
    /\ fetches = <<>>
    /\ hooks = [c \in Components |-> NoHook]
    /\ preloads = [p \in Callers |-> NoPreload]
    /\ lastCall = NoCall
    /\ wiped = [k \in Urls |-> "no"]
    /\ lastSettle = NoSettle

Pending(h) == h \in 1..Len(fetches) /\ ~fetches[h].settled

\* The cleanup of lines 87-89 clears isMounted of the closure of the last
\* effect; a closure that awaits a retrieval still pending stays registered
\* on its promise, detached.
Cleanup(hook) ==
    IF Pending(hook.promise) THEN hook.detached \cup {hook.promise} ELSE hook.detached

\* A step of a caller is counted, up to the bound.
Tick == calls < MaxCalls /\ calls' = calls + 1

(***************************************************************************)
(* useCachingFetch, lines 54-61 and 92: the first render of a component.   *)
(***************************************************************************)
Render(c, url) ==
    /\ Tick
    /\ hooks[c].pc = "none"
    /\ LET st == UseState(cache, url)
       IN  hooks' = [hooks EXCEPT ![c] =
                [pc |-> "rendered", url |-> url, data |-> st.data, error |-> st.error,
                 isLoading |-> st.isLoading, promise |-> NoPromise,
                 detached |-> hooks[c].detached]]
    /\ lastCall' = NoCall
    /\ lastSettle' = NoSettle
    /\ UNCHANGED <<cache, fetches, preloads, wiped>>

(***************************************************************************)
(* A later render with another url: useState keeps the state, the effect   *)
(* is due again (its dependency [url] changed, line 90).                   *)
(***************************************************************************)
Rerender(c, url) ==
    /\ Tick
    /\ hooks[c].pc = "effected"
    /\ hooks[c].url # url
    /\ hooks' = [hooks EXCEPT ![c].pc = "rendered", ![c].url = url]
    /\ lastCall' = NoCall
    /\ lastSettle' = NoSettle
    /\ UNCHANGED <<cache, fetches, preloads, wiped>>

(***************************************************************************)
(* useCachingFetch, lines 63-90: the effect, after the cleanup of the      *)
(* effect it replaces.                                                     *)
(***************************************************************************)
Effect(c) ==
    /\ Tick
    /\ hooks[c].pc = "rendered"
    /\ LET url == hooks[c].url
           r == FetchAndCache(cache, fetches, url)
       IN  IF HasDataOrError(cache, url)
           THEN /\ hooks' = [hooks EXCEPT ![c] =
                        [pc |-> "effected", url |-> url,
                         data |-> MapGet(cache, url).data,
                         error |-> MapGet(cache, url).error,
                         isLoading |-> FALSE, promise |-> NoPromise,
                         detached |-> Cleanup(hooks[c])]]
                /\ UNCHANGED <<cache, fetches, wiped>>
           ELSE /\ hooks' = [hooks EXCEPT ![c] =
                        [pc |-> "effected", url |-> url,
                         data |-> hooks[c].data, error |-> hooks[c].error,
                         isLoading |-> TRUE, promise |-> r.promise,
                         detached |-> Cleanup(hooks[c])]]
                /\ cache' = r.cache
                /\ fetches' = r.fetches
                /\ wiped' = [k \in Urls |-> WipedAfter(r.cache, k)]
    /\ lastCall' = NoCall
    /\ lastSettle' = NoSettle
    /\ UNCHANGED preloads

(***************************************************************************)
(* The component unmounts: the cleanup of lines 87-89; its state is gone.  *)
(***************************************************************************)
Unmount(c) ==
    /\ Tick
    /\ hooks[c].pc \in {"rendered", "effected"}
    /\ hooks' = [hooks EXCEPT ![c] = [NoHook EXCEPT !.detached = Cleanup(hooks[c])]]
    /\ lastCall' = NoCall
    /\ lastSettle' = NoSettle
    /\ UNCHANGED <<cache, fetches, preloads, wiped>>

\* Mutant of ThenCallback: the callback keeps the data and the error the
\* hook held instead of reading the entry again (lines 81-83 left out).
ThenCallbackStale(hook, h, m) ==
    IF hook.promise = h
    THEN [hook EXCEPT !.isLoading = FALSE, !.detached = hook.detached \ {h}]
    ELSE [hook EXCEPT !.detached = hook.detached \ {h}]

\* Mutant of ThenCallback: the test of isMounted, line 79, left out.
ThenCallbackIgnoresMounted(hook, h, m) ==
    IF hook.promise = h \/ h \in hook.detached
    THEN [hook EXCEPT !.data = DataOrNull(m, fetches[h].url),
                      !.error = ErrorOrNull(m, fetches[h].url),
                      !.isLoading = FALSE,
                      !.detached = hook.detached \ {h}]
    ELSE [hook EXCEPT !.detached = hook.detached \ {h}]

(***************************************************************************)
(* The .then callback of lines 78-85, run for the closures of hook when    *)
(* retrieval h settles and the cache has become m: the closure of the last *)
(* effect updates the state, a detached closure returns at line 79.        *)
(***************************************************************************)
ThenCallback(hook, h, m) ==
    IF hook.promise = h
    THEN [hook EXCEPT !.data = DataOrNull(m, fetches[h].url),
                      !.error = ErrorOrNull(m, fetches[h].url),
                      !.isLoading = FALSE,
                      !.detached = hook.detached \ {h}]
    ELSE [hook EXCEPT !.detached = hook.detached \ {h}]

(***************************************************************************)
(* Retrieval h settles with res: the handlers of lines 29-40 store the     *)
(* outcome, then the reactions on the promise run: the callbacks of the    *)
(* hooks that await it and the continuation of preload's await, line 106.  *)
(***************************************************************************)
Settle(h, res) ==
    /\ Pending(h)
    /\ UNCHANGED calls
    /\ LET url == fetches[h].url
           m == MapSet(cache, url, FetchOutcome(url, res))
       IN  /\ cache' = m
           /\ hooks' = [c \in Components |-> ThenCallback(hooks[c], h, m)]
           /\ wiped' = [k \in Urls |-> WipedAfter(m, k)]
    /\ fetches' = [fetches EXCEPT ![h].settled = TRUE]
    /\ preloads' = [p \in Callers |->
            IF preloads[p].pc = "awaiting" /\ preloads[p].promise = h
            THEN [preloads[p] EXCEPT !.pc = "done"]
            ELSE preloads[p]]
    /\ lastCall' = NoCall
    /\ lastSettle' = Settled(h, {c \in Components : hooks[c].promise = h},
                             {c \in Components : h \in hooks[c].detached})

(***************************************************************************)
(* preloadCachingFetch, lines 98-107, up to its await.                     *)
(***************************************************************************)
PreloadCachingFetch(p, url) ==
    /\ Tick
    /\ preloads[p].pc # "awaiting"
    /\ LET r == FetchAndCache(cache, fetches, url)
       IN  IF HasDataOrError(cache, url)
           THEN /\ preloads' = [preloads EXCEPT ![p] =
                        [pc |-> "done", url |-> url, promise |-> NoPromise]]
                /\ UNCHANGED <<cache, fetches, wiped>>
           ELSE /\ preloads' = [preloads EXCEPT ![p] =
                        [pc |-> "awaiting", url |-> url, promise |-> r.promise]]
                /\ cache' = r.cache
                /\ fetches' = r.fetches
                /\ wiped' = [k \in Urls |-> WipedAfter(r.cache, k)]
    /\ lastCall' = NoCall
    /\ lastSettle' = NoSettle
    /\ UNCHANGED hooks

(***************************************************************************)
(* A call of serializeCache; the caller holds the string returned.         *)
(***************************************************************************)
SerializeCacheCall ==
    /\ Tick
    /\ lastCall' = Call("serializeCache", SerializeCache(cache), FALSE, FALSE)
    /\ lastSettle' = NoSettle
    /\ UNCHANGED <<cache, fetches, hooks, preloads, wiped>>

(***************************************************************************)
(* A call of initializeCache(s).                                           *)
(***************************************************************************)
InitializeCacheCall(s) ==
    /\ Tick
    /\ LET r == InitializeCache(cache, s)
       IN  /\ cache' = r.cache
           /\ wiped' = [k \in Urls |-> WipedAfter(r.cache, k)]
           /\ lastCall' = Call("initializeCache", s, r.raised,
                               lastCall.op = "initializeCache" /\ lastCall.str = s)
    /\ lastSettle' = NoSettle
    /\ UNCHANGED <<fetches, hooks, preloads>>

(***************************************************************************)
(* A call of wipeCache.                                                    *)
(***************************************************************************)
WipeCacheCall ==
    /\ Tick
    /\ cache' = WipeCache(cache)
    /\ wiped' = [k \in Urls |->
            IF MapHas(cache, k) /\ Resolved(MapGet(cache, k)) THEN "wiped" ELSE "no"]
    /\ lastCall' = Call("wipeCache", EmptyString, FALSE, FALSE)
    /\ lastSettle' = NoSettle
    /\ UNCHANGED <<fetches, hooks, preloads>>

Next ==
    \/ \E c \in Components, url \in Urls : Render(c, url)
    \/ \E c \in Components, url \in Urls : Rerender(c, url)
    \/ \E c \in Components : Effect(c)
    \/ \E c \in Components : Unmount(c)
    \/ \E h \in 1..Len(fetches), res \in FetchResults : Settle(h, res)
    \/ \E p \in Callers, url \in Urls : PreloadCachingFetch(p, url)
    \/ SerializeCacheCall
    \/ \E s \in LoadInputs \cup {lastCall.str} : InitializeCacheCall(s)
    \/ WipeCacheCall

Spec == Init /\ [][Next]_vars

\* The transport settles every retrieval: a fetch that is pending is
\* eventually resolved or rejected.
FairSpec ==
    Spec /\ WF_vars(\E h \in 1..Len(fetches), res \in FetchResults : Settle(h, res))

(***************************************************************************)
(* Properties.                                                             *)
(***************************************************************************)
\* The retrievals of url that are outstanding: started and not settled.
Outstanding(url) == {h \in 1..Len(fetches) : ~fetches[h].settled /\ fetches[h].url = url}

\* The promise the call ensure(url) made in this step must have obtained:
\* with no entry for url, the promise of the one retrieval the step starts,
\* which the step stores; with a pending entry, the promise stored, and the
\* step starts nothing.
EnsuresOnce(url, promise) ==
    /\ ~MapHas(cache, url) =>
            /\ Len(fetches') = Len(fetches) + 1
            /\ fetches'[Len(fetches')] = [url |-> url, settled |-> FALSE]
            /\ PromiseOf(cache', url) = Len(fetches')
            /\ promise = Len(fetches')
    /\ PromiseOf(cache, url) # NoPromise =>
            /\ fetches' = fetches
            /\ cache' = cache
            /\ promise = PromiseOf(cache, url)
            /\ Pending(promise)

\* C1: for a key with no entry, the first read or preload call starts one
\* retrieval and stores its handle; every later call made before that
\* retrieval settles finds the pending entry and reuses the handle, starting
\* nothing: K calls, one retrieval.
C1_OneRetrievalPerWindow ==
    [][/\ \A c \in Components :
            Effect(c) => EnsuresOnce(hooks[c].url, hooks'[c].promise)
       /\ \A p \in Callers, url \in Urls :
            PreloadCachingFetch(p, url) => EnsuresOnce(url, preloads'[p].promise)]_vars

\* Three callers (two hooks and a preload) ride the one retrieval of a key.
C1_Witness ==
    \E h \in 1..Len(fetches) :
        /\ Pending(h)
        /\ \A c \in Components : hooks[c].pc = "effected" /\ hooks[c].promise = h
        /\ \A p \in Callers : preloads[p].pc = "awaiting" /\ preloads[p].promise = h
        /\ Cardinality({g \in 1..Len(fetches) : fetches[g].url = fetches[h].url}) = 1

\* An entry that stores an outcome: resolved with a payload, or failed.
StoresOutcome(m, url) ==
    /\ MapHas(m, url)
    /\ MapGet(m, url).promise = NoPromise
    /\ (MapGet(m, url).data # JNull \/ MapGet(m, url).error.isError)

\* C2: for a key whose entry is resolved or failed, whatever the payload or
\* the message, a read or a preload returns the stored outcome and starts no
\* retrieval.
C2_SettledNeverRefetched ==
    [][/\ \A c \in Components :
            (Effect(c) /\ StoresOutcome(cache, hooks[c].url)) =>
                /\ fetches' = fetches
                /\ hooks'[c].data = MapGet(cache, hooks[c].url).data
                /\ hooks'[c].error = MapGet(cache, hooks[c].url).error
       /\ \A p \in Callers, url \in Urls :
            (PreloadCachingFetch(p, url) /\ StoresOutcome(cache, url)) =>
                fetches' = fetches]_vars

\* C3: in every reachable state at most one retrieval per key is outstanding.
C3_OneOutstandingPerKey ==
    \A url \in Urls : Cardinality(Outstanding(url)) <= 1

(***************************************************************************)
(* The transfer from a producer to a consumer: the consumer's module       *)
(* starts with an empty Map (line 15) and calls initializeCache with the   *)
(* string the producer's serializeCache returned, before any render.       *)
(***************************************************************************)
Transferred(m) == InitializeCache(<<>>, SerializeCache(m)).cache

\* The retrievals a read of url (render, then effect) starts on the cache m.
ReadStarts(m, url) ==
    IF HasDataOrError(m, url) THEN 0 ELSE Len(FetchAndCache(m, <<>>, url).fetches)

\* The first read of url on a consumer hydrated from the producer's cache m
\* shows the producer's entry at once and starts nothing.
ConsumerReflects(m, url) ==
    /\ UseState(Transferred(m), url) =
            [data |-> MapGet(m, url).data, error |-> MapGet(m, url).error,
             isLoading |-> FALSE]
    /\ ReadStarts(Transferred(m), url) = 0

\* C4: once preload(key) has completed on the producer, a consumer whose
\* empty store is loaded with the producer's dump shows, on its first read
\* of key, the producer's outcome with loading = false, and starts no
\* retrieval, for every outcome the producer obtained.
C4_TransferAvoidsRefetch ==
    [][/\ \A h \in 1..Len(fetches), res \in FetchResults, p \in Callers :
            (Settle(h, res) /\ preloads[p].pc = "awaiting" /\ preloads[p].promise = h)
                => ConsumerReflects(cache', fetches[h].url)
       /\ \A p \in Callers, url \in Urls :
            (PreloadCachingFetch(p, url) /\ preloads'[p].pc = "done")
                => ConsumerReflects(cache', url)]_vars

\* C5: for a store of resolved and failed entries only, load(dump()) into an
\* empty store reproduces every key's data and error message.
C5_RoundTrip ==
    (\A i \in 1..Len(cache) : cache[i].promise = NoPromise) =>
        \A url \in MapKeys(cache) :
            /\ MapHas(Transferred(cache), url)
            /\ MapGet(Transferred(cache), url).data = MapGet(cache, url).data
            /\ MapGet(Transferred(cache), url).error = MapGet(cache, url).error

\* C6: a second initializeCache(s) right after initializeCache(s) leaves the
\* store as the first call left it, for every string s and starting store.
C6_LoadIdempotent ==
    [][\A s \in LoadInputs \cup {lastCall.str} :
            (InitializeCacheCall(s) /\ lastCall.op = "initializeCache" /\ lastCall.str = s)
                => cache' = cache]_vars

\* A snapshot with members was loaded twice in a row into a store that also
\* holds a pending entry.
C6_Witness ==
    /\ lastCall.op = "initializeCache"
    /\ lastCall.repeat
    /\ lastCall.str.parses
    /\ lastCall.str.doc.members # <<>>
    /\ \E i \in 1..Len(cache) : cache[i].promise # NoPromise
    /\ \E i \in 1..Len(cache) : cache[i].promise = NoPromise

\* C7: initializeCache of a string that fails to parse leaves the store as
\* it was, pending handles included, and raises nothing.
C7_FailOpen ==
    [][\A s \in LoadInputs \cup {lastCall.str} :
            (InitializeCacheCall(s) /\ ~s.parses)
                => (cache' = cache /\ ~lastCall'.raised)]_vars

\* "not valid json" was loaded into a store holding a settled and a pending
\* entry.
C7_Witness ==
    /\ lastCall.op = "initializeCache"
    /\ lastCall.str = NotValidJson
    /\ ~lastCall.raised
    /\ \E i \in 1..Len(cache) : cache[i].promise # NoPromise
    /\ \E i \in 1..Len(cache) : cache[i].promise = NoPromise /\ Truthy(cache[i].data)

\* C8: after wipeCache, a read of a key that was resolved before the wipe
\* behaves as for a key never seen: the first render shows loading = true
\* with null data and error, and the effect starts exactly one retrieval.
C8_ReadAfterWipe ==
    [][/\ \A c \in Components, url \in Urls :
            (Render(c, url) /\ wiped[url] = "wiped") =>
                /\ hooks'[c].isLoading /\ hooks'[c].data = JNull /\ hooks'[c].error = NoError
                /\ UseState(cache, url) = UseState(<<>>, url)
       /\ \A c \in Components :
            (Effect(c) /\ wiped[hooks[c].url] = "wiped") =>
                /\ Len(fetches') = Len(fetches) + 1
                /\ fetches'[Len(fetches')] = [url |-> hooks[c].url, settled |-> FALSE]
                /\ hooks'[c].promise = Len(fetches')
                /\ PromiseOf(cache', hooks[c].url) = Len(fetches')
                /\ hooks'[c].isLoading]_vars

\* A key was fetched and resolved, wiped, and read again: the hook is
\* loading with null data and awaits the one new retrieval.
C8_Witness ==
    \E c \in Components :
        /\ hooks[c].pc = "effected"
        /\ wiped[hooks[c].url] = "refetching"
        /\ hooks[c].isLoading /\ hooks[c].data = JNull /\ hooks[c].error = NoError
        /\ Pending(hooks[c].promise)
        /\ PromiseOf(cache, hooks[c].url) = hooks[c].promise
        /\ Cardinality(Outstanding(hooks[c].url)) = 1
        /\ \E g \in 1..Len(fetches) : fetches[g].settled /\ fetches[g].url = hooks[c].url

\* The closure of hook c awaits a retrieval that has not settled.
Awaiting(c) == Pending(hooks[c].promise)

\* C9: the consumers that read a key in the same pending window and stay
\* mounted all reach loading = false when the shared retrieval settles, and
\* then hold the same data and error: the outcome of that retrieval.
C9_SharedOutcome ==
    /\ [][\A h \in 1..Len(fetches), res \in FetchResults :
            Settle(h, res) =>
                \A c \in Components :
                    hooks[c].promise = h =>
                        /\ ~hooks'[c].isLoading
                        /\ hooks'[c].data = FetchOutcome(fetches[h].url, res).data
                        /\ hooks'[c].error = FetchOutcome(fetches[h].url, res).error]_vars
    /\ \A c \in Components :
            Awaiting(c) ~> (hooks[c].promise = NoPromise
                            \/ (~Awaiting(c) /\ ~hooks[c].isLoading))

\* Both components awaited the same retrieval, which has settled: both show
\* its outcome.
C9_Witness ==
    \E h \in 1..Len(fetches) :
        /\ fetches[h].settled
        /\ \A c \in Components :
            /\ hooks[c].pc = "effected" /\ hooks[c].promise = h /\ ~hooks[c].isLoading
            /\ MapHas(cache, fetches[h].url)
            /\ hooks[c].data = MapGet(cache, fetches[h].url).data
            /\ hooks[c].error = MapGet(cache, fetches[h].url).error
        /\ Truthy(hooks["A"].data)

\* What serializeCache returns for the cache m holds url with data and error.
DumpHolds(m, url, data, error) ==
    \E i \in 1..Len(SerializeCache(m).doc.members) :
        SerializeCache(m).doc.members[i] = Member(url, data, error)

\* C10: when preload(key) completes, the entry of key is settled and a dump
\* taken then holds key with the payload and error null, or with the error
\* message; and preload on a key that already has data or an error completes
\* without changing the store or starting a retrieval.
C10_PreloadCompletes ==
    [][/\ \A h \in 1..Len(fetches), res \in FetchResults, p \in Callers :
            (Settle(h, res) /\ preloads[p].pc = "awaiting" /\ preloads[p].promise = h) =>
                /\ preloads'[p].pc = "done"
                /\ MapHas(cache', fetches[h].url)
                /\ MapGet(cache', fetches[h].url).promise = NoPromise
                /\ LET e == FetchOutcome(fetches[h].url, res)
                   IN  DumpHolds(cache', fetches[h].url, e.data,
                                 IF e.error.isError THEN JStr(e.error.message) ELSE JNull)
       /\ \A p \in Callers, url \in Urls :
            (PreloadCachingFetch(p, url) /\ StoresOutcome(cache, url)) =>
                /\ preloads'[p].pc = "done"
                /\ cache' = cache
                /\ fetches' = fetches]_vars

\* The snapshot a component's hook returns, line 92.
Snapshot(hook) == [data |-> hook.data, error |-> hook.error, isLoading |-> hook.isLoading]

\* C11: a consumer whose cleanup ran (it unmounted, or its effect was replaced
\* by the effect of another key) before its retrieval settled gets no update
\* from it: the settlement leaves its snapshot and its position as they
\* were, and the settlement itself completes.
C11_TornDownNoUpdate ==
    [][\A h \in 1..Len(fetches), res \in FetchResults :
            Settle(h, res) =>
                \A c \in Components :
                    (h \in hooks[c].detached /\ hooks[c].promise # h) =>
                        /\ Snapshot(hooks'[c]) = Snapshot(hooks[c])
                        /\ hooks'[c].pc = hooks[c].pc
                        /\ hooks'[c].url = hooks[c].url
                        /\ fetches'[h].settled]_vars

\* A component switched to another key and is loading it; the retrieval of
\* the key it left has just settled and stored a payload.
C11_Witness ==
    \E c \in lastSettle.tornDown \ lastSettle.live :
        /\ hooks[c].pc = "effected"
        /\ hooks[c].url # fetches[lastSettle.h].url
        /\ hooks[c].isLoading
        /\ hooks[c].data = JNull
        /\ Truthy(DataOrNull(cache, fetches[lastSettle.h].url))

\* C12 (invariant I2): in every reachable state no entry carries both data
\* and an error, and an entry with a promise in flight carries neither.
C12_DataErrorExclusive ==
    \A i \in 1..Len(cache) :
        /\ ~(cache[i].data # JNull /\ cache[i].error.isError)
        /\ cache[i].promise # NoPromise =>
                (cache[i].data = JNull /\ ~cache[i].error.isError)

\* An entry that is failed: settled with an Error.
Failed(m, url) ==
    MapHas(m, url) /\ MapGet(m, url).promise = NoPromise /\ MapGet(m, url).error.isError

\* C13: a retrieval answered with a non-success status, or with a body that
\* fails to decode, leaves its key failed, data null, with the message
\* recorded (for a status, the message naming it); and a read or a preload
\* of a failed key starts no retrieval and leaves the store as it is.
C13_FailedIsTerminal ==
    [][/\ \A h \in 1..Len(fetches), res \in FetchResults :
            (Settle(h, res) /\ ~res.rejected /\ (~ResOk(res) \/ ~res.decodes)) =>
                /\ Failed(cache', fetches[h].url)
                /\ MapGet(cache', fetches[h].url).data = JNull
                /\ MapGet(cache', fetches[h].url).error.message =
                        IF ~ResOk(res)
                        THEN "Request failed with status " \o ToString(res.status)
                        ELSE res.message
       /\ \A c \in Components :
            (Effect(c) /\ Failed(cache, hooks[c].url)) =>
                /\ fetches' = fetches /\ cache' = cache
                /\ hooks'[c].error = MapGet(cache, hooks[c].url).error
                /\ ~hooks'[c].isLoading
       /\ \A p \in Callers, url \in Urls :
            (PreloadCachingFetch(p, url) /\ Failed(cache, url)) =>
                /\ fetches' = fetches /\ cache' = cache
                /\ preloads'[p].pc = "done"]_vars

\* A key failed with status 500; a preload and a read of it have since
\* completed on the stored error, and its one retrieval is the only one.
C13_Witness ==
    \E c \in Components, p \in Callers :
        /\ hooks[c].pc = "effected" /\ hooks[c].promise = NoPromise
        /\ Failed(cache, hooks[c].url)
        /\ hooks[c].error = Err("Request failed with status 500")
        /\ ~hooks[c].isLoading
        /\ preloads[p].pc = "done" /\ preloads[p].url = hooks[c].url
        /\ preloads[p].promise = NoPromise
        /\ Cardinality({g \in 1..Len(fetches) : fetches[g].url = hooks[c].url}) = 1

\* The error of an entry as serializeCache writes it: the message, or null.
MessageOrNull(e) == IF e.error.isError THEN JStr(e.error.message) ELSE JNull

\* C14: the string serializeCache returns has one member per key of the
\* cache and no other; the member of a key is {data, error} with the entry's
\* data and its error's message or null, and carries no promise; and a key
\* that goes pending is dumped with the data and error it held before.
C14_DumpShape ==
    [][/\ SerializeCacheCall =>
            LET members == lastCall'.str.doc.members
            IN  /\ lastCall'.str.parses /\ lastCall'.str.doc.isObject
                /\ Len(members) = Len(cache)
                /\ {members[i].key : i \in 1..Len(members)} = MapKeys(cache)
                /\ \A i \in 1..Len(members) :
                        /\ DOMAIN members[i] = {"key", "isObject", "data", "error"}
                        /\ members[i] = Member(members[i].key,
                                               MapGet(cache, members[i].key).data,
                                               MessageOrNull(MapGet(cache, members[i].key)))
       /\ \A url \in Urls :
            (PromiseOf(cache, url) = NoPromise /\ PromiseOf(cache', url) # NoPromise) =>
                DumpHolds(cache', url, DataOrNull(cache, url),
                          IF MapHas(cache, url) THEN MessageOrNull(MapGet(cache, url))
                                                ELSE JNull)]_vars

\* serializeCache was called on a store holding a failed entry and a pending
\* entry that kept the data 0 it held before: the string has both members.
C14_Witness ==
    /\ lastCall.op = "serializeCache"
    /\ Len(lastCall.str.doc.members) = 2
    /\ \E i \in 1..Len(cache) : cache[i].promise # NoPromise /\ cache[i].data = JZero
    /\ \E i \in 1..Len(cache) : cache[i].promise = NoPromise /\ cache[i].error.isError

\* A string that is not the text of a mapping from keys to {data, error}.
Malformed(s) ==
    /\ ~s.empty
    /\ \/ ~s.parses
       \/ ~s.doc.isObject
       \/ \E i \in 1..Len(s.doc.members) : ~s.doc.members[i].isObject

\* C15: initializeCache of a malformed string, one that parses but is no
\* mapping or has a malformed member after well-formed ones included,
\* installs nothing: the store afterwards is the store before, and nothing
\* is raised.
C15_MalformedDiscarded ==
    [][\A s \in LoadInputs \cup {lastCall.str} :
            (InitializeCacheCall(s) /\ Malformed(s))
                => (cache' = cache /\ ~lastCall'.raised)]_vars

\* The key url is pending: its entry holds the promise of a retrieval that
\* has not settled.
KeyPending(url) == Pending(PromiseOf(cache, url))

\* The settlement of a retrieval stores its outcome as the entry of its key,
\* whoever awaits it; and every retrieval started settles.
RunsToCompletion ==
    /\ [][\A h \in 1..Len(fetches), res \in FetchResults :
            Settle(h, res) =>
                /\ MapHas(cache', fetches[h].url)
                /\ MapGet(cache', fetches[h].url) = FetchOutcome(fetches[h].url, res)
                /\ fetches'[h].settled]_vars
    /\ \A h \in 1..MaxCalls :
            Pending(h) ~> (h \in 1..Len(fetches) /\ fetches[h].settled)

\* C16: a retrieval once started settles (the transport being
\* fair) and its outcome becomes the entry of its key even with every
\* consumer torn down; and until it settles, its key stays pending on it.
C16_NoCancellation ==
    /\ RunsToCompletion
    /\ [][\A url \in Urls :
            KeyPending(url) =>
                \/ PromiseOf(cache', url) = PromiseOf(cache, url)
                \/ fetches'[PromiseOf(cache, url)].settled]_vars

\* C17: the state the first render of useCachingFetch(url) returns has
\* isLoading = false exactly when the entry of url has data or an error, and
\* then holds them; with no entry or a pending one it is isLoading = true,
\* data = null, error = null.
C17_InitialSnapshot ==
    [][\A c \in Components, url \in Urls :
            Render(c, url) =>
                IF MapHas(cache, url) /\ MapGet(cache, url).promise = NoPromise
                      /\ (MapGet(cache, url).data # JNull \/ MapGet(cache, url).error.isError)
                THEN Snapshot(hooks'[c]) =
                        [data |-> MapGet(cache, url).data,
                         error |-> MapGet(cache, url).error,
                         isLoading |-> FALSE]
                ELSE Snapshot(hooks'[c]) =
                        [data |-> JNull, error |-> NoError, isLoading |-> TRUE]]_vars

\* C18: once a key's entry stores an outcome, resolved or failed, no step
\* other than a call of wipeCache or initializeCache changes the key's data
\* or error; the settlement of a retrieval does not.
C18_OutcomeStable ==
    [][\A url \in Urls :
            (StoresOutcome(cache, url)
                /\ lastCall'.op \notin {"wipeCache", "initializeCache"}) =>
                    /\ MapHas(cache', url)
                    /\ MapGet(cache', url).data = MapGet(cache, url).data
                    /\ MapGet(cache', url).error = MapGet(cache, url).error]_vars

\* C19: wipeCache leaves the store empty, and the store a wipe emptied stays
\* empty until the next read, preload or load: the settlement of a
\* retrieval that was in flight when wipeCache ran inserts no entry.
C19_WipedStaysEmpty ==
    [][/\ WipeCacheCall => cache' = <<>>
       /\ \A h \in 1..Len(fetches), res \in FetchResults :
            (cache = <<>> /\ Settle(h, res)) => cache' = <<>>]_vars

\* The keys of the members of the document a string is the text of.
SnapshotKeys(s) ==
    IF s.parses /\ s.doc.isObject
    THEN {s.doc.members[i].key : i \in 1..Len(s.doc.members)}
    ELSE {}

\* C20: initializeCache(s) changes the entries of keys of s only: the entry
\* of every other key, its promise included, is as before, no key is
\* removed, and no retrieval is started.
C20_LoadFrame ==
    [][\A s \in LoadInputs \cup {lastCall.str} :
            InitializeCacheCall(s) =>
                /\ \A url \in Urls \ SnapshotKeys(s) :
                        /\ MapHas(cache', url) = MapHas(cache, url)
                        /\ MapHas(cache, url) => MapGet(cache', url) = MapGet(cache, url)
                /\ MapKeys(cache) \subseteq MapKeys(cache')
                /\ fetches' = fetches]_vars

\* A snapshot with a member was loaded into a store that holds, under a key
\* the snapshot lacks, an entry whose retrieval is in flight.
C20_Witness ==
    /\ lastCall.op = "initializeCache"
    /\ SnapshotKeys(lastCall.str) # {}
    /\ \E i \in 1..Len(cache) :
            /\ cache[i].url \notin SnapshotKeys(lastCall.str)
            /\ Pending(cache[i].promise)
    /\ \E i \in 1..Len(cache) :
            /\ cache[i].url \in SnapshotKeys(lastCall.str)
            /\ cache[i].promise = NoPromise

====
